---- MODULE Spec2Model ----
(***************************************************************************)
(* Model of the traefik-throttle admission layer: Throttle.ServeHTTP,      *)
(* applyUserLimits, applyRateLimiting and getEndpointConfig, run by        *)
(* concurrent request goroutines, plus the time.AfterFunc release          *)
(* callbacks of the user tier.  Every Lock/RLock is a step of its own; the *)
(* code between an acquisition and the matching release is split at the    *)
(* statements the claims talk about.  time.Sleep and the timers are        *)
(* untimed: a sleep ends and a timer fires at any later moment.            *)
(***************************************************************************)
EXTENDS Integers, FiniteSets, Sequences, TLC

\* ---------------------------------------------------------------- bounds
NReq == 2          \* goroutines serving requests at the same time
MaxArrivals == 3   \* requests that arrive in one behaviour

Threads == 1..NReq

\* holders of locks and creators of objects
NoOne == 0         \* nobody holds the lock
ByNew == 0         \* creator of the states New builds from config.Endpoints
TimerCb == -1      \* the time.AfterFunc callback as a lock holder

\* ---------------------------------------------------------------- keys
Paths == {"/a", "/b"}
Methods == {"GET", "POST"}
Users == {"u1"}
NoUser == ""
Keys == Paths \X Methods

\* config.Endpoints holds one override: GET on /a.
ConfiguredKeys == {<<"/a", "GET">>}
ConfiguredPaths == {k[1] : k \in ConfiguredKeys}

\* endpointState and UserState objects are named by their key and creator:
\* a goroutine allocates at most one object per key, because it inserts what
\* it allocates and a key that is present is never looked up as missing.
EObjs ==
  {o \in Paths \X Methods \X ({ByNew} \cup Threads) :
     o[3] = ByNew => <<o[1], o[2]>> \in ConfiguredKeys}
NilE == <<"", "", -1>>
UObjs == Paths \X Methods \X Users \X Threads
NilU == <<"", "", "", -1>>

EKey(o) == <<o[1], o[2]>>
UKey(o) == <<o[1], o[2]>>

\* ---------------------------------------------------------------- config
\* Config of config.go, without the duration strings.
Cfg(mr, mq, rc, umr) ==
  [MaxRequests |-> mr, MaxQueue |-> mq, RetryCount |-> rc, UserMaxRequests |-> umr]

Request(p, m, u) == [path |-> p, method |-> m, userID |-> u]
NoRequest == Request("", "", "")

\* What one behaviour runs with: the global policy, the override of the
\* configured key, and the requests that may arrive.
Scenario(g, e, w) == [global |-> g, override |-> e, workload |-> w]

\* spec.md section 8, scenario A: maxRequests=1, maxQueue=1, retryCount=1.
ScenarioA == Cfg(1, 1, 1, 1)

Scenarios ==
  { \* an endpoint never seen before, scenario A
    Scenario(ScenarioA, Cfg(1, 0, 1, 0), {Request("/b", "GET", NoUser)}),
    \* a new method of a configured path, a queue with room
    Scenario(Cfg(1, 2, 1, 1), Cfg(1, 0, 1, 0), {Request("/a", "POST", NoUser)}),
    \* the configured endpoint and another method of its path
    Scenario(Cfg(1, 1, 0, 1), Cfg(1, 2, 1, 0),
             {Request("/a", "GET", NoUser), Request("/a", "POST", NoUser)}),
    \* a user on the configured endpoint, the override's user limit unset
    Scenario(Cfg(2, 0, 0, 1), Cfg(1, 0, 3, 0), {Request("/a", "GET", "u1")}) }

VARIABLES
  globalConfig,      \* Throttle.globalConfig
  endpointConfigs,   \* Throttle.endpointConfigs: the override of each configured key
  workload,          \* the requests the environment sends
  delays,            \* Config.RetryDelay and UserRetryDelay, global and of the override
  throttle,          \* what New returned: error or handler, with the parsed durations
  limits,            \* Throttle.limits: path -> (map present?, method -> state)
  userLimits,        \* Throttle.userLimits: key -> (map present?, user -> state)
  limitsLock,        \* Throttle.limitsLock: [writer, readers]
  requestsCount,     \* endpointState.requestsCount
  queueCount,        \* endpointState.queueCount
  mutex,             \* endpointState.mutex: its holder
  uRequestsCount,    \* UserState.requestsCount
  uMutex,            \* UserState.mutex: its holder
  timers,            \* time.AfterFunc callbacks scheduled and not yet started
  cb,                \* the callback that holds limitsLock: [pc, obj]
  pc,                \* where each goroutine is
  req,               \* the request each goroutine serves
  methodStates,      \* getEndpointConfig's local: "nil" or the path whose map it is
  state,             \* the *endpointState of the goroutine
  userState,         \* the *UserState of the goroutine
  attempt,           \* applyRateLimiting's locals
  queued,
  incrementedQueue,
  hist,              \* per request: what it has done so far (observation only)
  returned,          \* per key: the states getEndpointConfig has returned
  arrivals           \* requests that have arrived

shared == <<limits, userLimits, limitsLock, requestsCount, queueCount, mutex,
            uRequestsCount, uMutex, timers, cb>>
env == <<globalConfig, endpointConfigs, workload, delays, throttle>>
locals == <<methodStates, state, userState, attempt, queued, incrementedQueue>>
vars == <<env, shared, pc, req, locals, hist, returned, arrivals>>

\* ---------------------------------------------------------------- fields
\* The policy fields of an endpointState: New copies the override's
\* (part_000:57-62), getEndpointConfig copies the global ones (238-243).
maxRequests(o) ==
  IF o[3] = ByNew THEN endpointConfigs[EKey(o)].MaxRequests ELSE globalConfig.MaxRequests
maxQueue(o) ==
  IF o[3] = ByNew THEN endpointConfigs[EKey(o)].MaxQueue ELSE globalConfig.MaxQueue
retryCount(o) ==
  IF o[3] = ByNew THEN endpointConfigs[EKey(o)].RetryCount ELSE globalConfig.RetryCount

\* UserState.maxRequests as applyUserLimits resolves it (part_000:114-124).
userMaxRequests(o) ==
  IF UKey(o) \in ConfiguredKeys /\ endpointConfigs[UKey(o)].UserMaxRequests > 0
    THEN endpointConfigs[UKey(o)].UserMaxRequests
    ELSE globalConfig.UserMaxRequests

NoHist == [attempts |-> 0, sleeps |-> 0, qInc |-> 0, qDec |-> 0, rcInc |-> 0,
           outcome |-> "none", userTier |-> "none", calls |-> 0]

\* ---------------------------------------------------------------- durations
\* time.Duration in milliseconds.
Millisecond == 1
Second == 1000

\* The duration strings a configuration may carry: unset, two that
\* time.ParseDuration accepts, one that it rejects.
DurationStrings == {"", "50ms", "2s", "soon"}

\* time.ParseDuration on these strings: the duration, or an error with 0.
ParseDuration(value) ==
  CASE value = "50ms" -> [d |-> 50, err |-> FALSE]
    [] value = "200ms" -> [d |-> 200, err |-> FALSE]
    [] value = "1s" -> [d |-> 1000, err |-> FALSE]
    [] value = "2s" -> [d |-> 2000, err |-> FALSE]
    [] OTHER -> [d |-> 0, err |-> TRUE]

\* parseDurationOrDefault (utils.go:28-37): the default for the empty string,
\* the default together with the error for a string that does not parse.
parseDurationOrDefault(value, defaultDuration) ==
  IF value = "" THEN [d |-> defaultDuration, err |-> FALSE]
  ELSE IF ParseDuration(value).err THEN [d |-> defaultDuration, err |-> TRUE]
  ELSE [d |-> ParseDuration(value).d, err |-> FALSE]

Delays(rd, urd) == [RetryDelay |-> rd, UserRetryDelay |-> urd]

\* CreateConfig (config.go:26-36) for the global strings, none in the override.
DefaultDelays == [global |-> Delays("200ms", "1s"), override |-> Delays("", "")]

NotCalled == [status |-> "none", retryDelayDuration |-> 0, userRetryDelayDuration |-> 0,
              endpointRetryDelay |-> 0, endpointUserRetryDelay |-> 0]

\* The duration of an override (part_000:43-55): an error is logged and the
\* default taken.
OverrideDuration(value, defaultDuration) ==
  IF parseDurationOrDefault(value, defaultDuration).err
    THEN defaultDuration
    ELSE parseDurationOrDefault(value, defaultDuration).d

\* New (part_000:24-74), as far as durations go: an error of a global string
\* is returned (24-33); otherwise the handler carries the parsed durations.
New(in) ==
  LET g == parseDurationOrDefault(in.global.RetryDelay, Millisecond)
      u == parseDurationOrDefault(in.global.UserRetryDelay, Second)
  IN IF g.err \/ u.err
       THEN [NotCalled EXCEPT !.status = "error"]
       ELSE [status |-> "ok",
             retryDelayDuration |-> g.d,
             userRetryDelayDuration |-> u.d,
             endpointRetryDelay |-> OverrideDuration(in.override.RetryDelay, Millisecond),
             endpointUserRetryDelay |-> OverrideDuration(in.override.UserRetryDelay, Second)]

\* ---------------------------------------------------------------- Init
\* New (part_000:36-73): a method map for every configured path, holding a
\* state for every configured method; userLimits empty; nothing locked.
Constructed(sc) ==
  /\ globalConfig = sc.global
  /\ endpointConfigs = [k \in ConfiguredKeys |-> sc.override]
  /\ workload = sc.workload
  /\ limits = [p \in Paths |->
       [present |-> p \in ConfiguredPaths,
        states |-> [m \in Methods |->
           IF <<p, m>> \in ConfiguredKeys THEN <<p, m, ByNew>> ELSE NilE]]]
  /\ userLimits = [k \in Keys |-> [present |-> FALSE, users |-> [u \in Users |-> NilU]]]
  /\ limitsLock = [writer |-> NoOne, readers |-> {}]
  /\ requestsCount = [o \in EObjs |-> 0]
  /\ queueCount = [o \in EObjs |-> 0]
  /\ mutex = [o \in EObjs |-> NoOne]
  /\ uRequestsCount = [o \in UObjs |-> 0]
  /\ uMutex = [o \in UObjs |-> NoOne]
  /\ timers = [o \in UObjs |-> 0]
  /\ cb = [pc |-> "off", obj |-> NilU]
  /\ pc = [r \in Threads |-> "idle"]
  /\ req = [r \in Threads |-> NoRequest]
  /\ methodStates = [r \in Threads |-> "nil"]
  /\ state = [r \in Threads |-> NilE]
  /\ userState = [r \in Threads |-> NilU]
  /\ attempt = [r \in Threads |-> 0]
  /\ queued = [r \in Threads |-> FALSE]
  /\ incrementedQueue = [r \in Threads |-> FALSE]
  /\ hist = [r \in Threads |-> NoHist]
  /\ returned = [k \in Keys |-> {}]
  /\ arrivals = 0

\* The handler New has returned, built from durations that parse.
Init ==
  /\ \E sc \in Scenarios : Constructed(sc)
  /\ delays = DefaultDelays
  /\ throttle = New(delays)

\* ---------------------------------------------------------------- locks
\* sync.RWMutex, as far as the code uses it.
CanRLock == limitsLock.writer = NoOne
CanLock == limitsLock.writer = NoOne /\ limitsLock.readers = {}
RLock(r) == [limitsLock EXCEPT !.readers = @ \cup {r}]
RUnlock(r) == [limitsLock EXCEPT !.readers = @ \ {r}]
Lock(h) == [limitsLock EXCEPT !.writer = h]
Unlock == [limitsLock EXCEPT !.writer = NoOne]

Key(r) == <<req[r].path, req[r].method>>

\* ---------------------------------------------------------------- ServeHTTP
\* The goroutine a new request runs on: goroutines that serve no request are
\* interchangeable, so the request takes the first of them.
FreeSlot(r) ==
  /\ pc[r] \in {"idle", "done"}
  /\ \A s \in Threads : s < r => pc[s] \notin {"idle", "done"}

\* Every request sent straight to the endpoint tier.
FirstTierEndpoint(q) == "gec_rlock1"

\* part_000:80-92: applyUserLimits first when the request names a user.
FirstTier(q) == IF q.userID = NoUser THEN "gec_rlock1" ELSE "aul_rlock1"

\* ServeHTTP (part_000:77-95): a request arrives on a goroutine of its own;
\* without a user identifier it goes to getEndpointConfig, with one to
\* applyUserLimits first.
ServeHTTP(r) ==
  /\ FreeSlot(r)
  /\ arrivals < MaxArrivals
  /\ \E q \in workload :
       /\ req' = [req EXCEPT ![r] = q]
       /\ pc' = [pc EXCEPT ![r] = FirstTier(q)]
  /\ arrivals' = arrivals + 1
  /\ methodStates' = [methodStates EXCEPT ![r] = "nil"]
  /\ state' = [state EXCEPT ![r] = NilE]
  /\ userState' = [userState EXCEPT ![r] = NilU]
  /\ attempt' = [attempt EXCEPT ![r] = 0]
  /\ queued' = [queued EXCEPT ![r] = FALSE]
  /\ incrementedQueue' = [incrementedQueue EXCEPT ![r] = FALSE]
  /\ hist' = [hist EXCEPT ![r] = NoHist]
  /\ UNCHANGED <<env, shared, returned>>

\* ---------------------------------------------------------------- applyRateLimiting, entry
\* The loop test letting one attempt too many through.
LoopCondOneMore(a) == a >= -1

\* `for attempt >= 0` (part_000:166).
LoopCond(a) == a >= 0

\* Where the loop test sends the goroutine: into the next attempt, or past
\* the loop to the release of the reservation (210-214) and the 429 (217).
AfterLoopTest(a, q) ==
  IF LoopCond(a) THEN "rl_lock" ELSE IF q THEN "ex_lock" ELSE "done"

OutcomeAfterLoop(a, q, h) ==
  IF ~LoopCond(a) /\ ~q THEN [h EXCEPT !.outcome = "rejected_exhausted"] ELSE h

\* applyRateLimiting has returned: its locals are gone.
DropLocals(r) ==
  /\ attempt' = [attempt EXCEPT ![r] = 0]
  /\ queued' = [queued EXCEPT ![r] = FALSE]
  /\ incrementedQueue' = [incrementedQueue EXCEPT ![r] = FALSE]

\* getEndpointConfig returns o (part_000:249) and applyRateLimiting begins
\* (162-166): attempt := state.retryCount, queued, incrementedQueue := false.
ReturnState(r, o) ==
  /\ state' = [state EXCEPT ![r] = o]
  /\ methodStates' = [methodStates EXCEPT ![r] = "nil"]
  /\ returned' = [returned EXCEPT ![Key(r)] = @ \cup {o}]
  /\ attempt' = [attempt EXCEPT ![r] = retryCount(o)]
  /\ queued' = [queued EXCEPT ![r] = FALSE]
  /\ incrementedQueue' = [incrementedQueue EXCEPT ![r] = FALSE]
  /\ pc' = [pc EXCEPT ![r] = AfterLoopTest(retryCount(o), FALSE)]
  /\ hist' = [hist EXCEPT ![r] = OutcomeAfterLoop(retryCount(o), FALSE, @)]

\* ---------------------------------------------------------------- getEndpointConfig
\* part_000:222
GecRLock1(r) ==
  /\ pc[r] = "gec_rlock1"
  /\ CanRLock
  /\ limitsLock' = RLock(r)
  /\ pc' = [pc EXCEPT ![r] = "gec_read1"]
  /\ UNCHANGED <<env, limits, userLimits, requestsCount, queueCount, mutex,
                 uRequestsCount, uMutex, timers, cb, req, locals, hist, returned, arrivals>>

\* part_000:223-225: methodStates, exists := t.limits[path]; RUnlock
GecRead1(r) ==
  /\ pc[r] = "gec_read1"
  /\ methodStates' = [methodStates EXCEPT ![r] =
        IF limits[req[r].path].present THEN req[r].path ELSE "nil"]
  /\ limitsLock' = RUnlock(r)
  /\ pc' = [pc EXCEPT ![r] = IF limits[req[r].path].present THEN "gec_rlock2" ELSE "gec_lock1"]
  /\ UNCHANGED <<env, limits, userLimits, requestsCount, queueCount, mutex,
                 uRequestsCount, uMutex, timers, cb, req, state, userState, attempt,
                 queued, incrementedQueue, hist, returned, arrivals>>

\* part_000:226
GecLock1(r) ==
  /\ pc[r] = "gec_lock1"
  /\ CanLock
  /\ limitsLock' = Lock(r)
  /\ pc' = [pc EXCEPT ![r] = "gec_create1"]
  /\ UNCHANGED <<env, limits, userLimits, requestsCount, queueCount, mutex,
                 uRequestsCount, uMutex, timers, cb, req, locals, hist, returned, arrivals>>

\* The local methodStates after the re-check of part_000:227-230: it is
\* assigned only when this goroutine makes the map.
RecheckedMethodStates(present, old, path) == IF ~present THEN path ELSE old

\* part_000:227-231: re-check, make the method map, Unlock
GecCreate1(r) ==
  /\ pc[r] = "gec_create1"
  /\ methodStates' = [methodStates EXCEPT ![r] =
        RecheckedMethodStates(limits[req[r].path].present, @, req[r].path)]
  /\ limits' = [limits EXCEPT ![req[r].path].present = TRUE]
  /\ limitsLock' = Unlock
  /\ pc' = [pc EXCEPT ![r] = "gec_rlock2"]
  /\ UNCHANGED <<env, userLimits, requestsCount, queueCount, mutex,
                 uRequestsCount, uMutex, timers, cb, req, state, userState, attempt,
                 queued, incrementedQueue, hist, returned, arrivals>>

\* part_000:234
GecRLock2(r) ==
  /\ pc[r] = "gec_rlock2"
  /\ CanRLock
  /\ limitsLock' = RLock(r)
  /\ pc' = [pc EXCEPT ![r] = "gec_read2"]
  /\ UNCHANGED <<env, limits, userLimits, requestsCount, queueCount, mutex,
                 uRequestsCount, uMutex, timers, cb, req, locals, hist, returned, arrivals>>

\* methodStates[method] (part_000:235): a nil map reads as "no entry".
LookupState(ms, method) == IF ms = "nil" THEN NilE ELSE limits[ms].states[method]

\* part_000:235-237 and, when the state exists, the return of 249
GecRead2(r) ==
  /\ pc[r] = "gec_read2"
  /\ limitsLock' = RUnlock(r)
  /\ LET o == LookupState(methodStates[r], req[r].method) IN
       IF o # NilE
         THEN ReturnState(r, o)
         ELSE /\ pc' = [pc EXCEPT ![r] = "gec_lock2"]
              /\ UNCHANGED <<methodStates, state, attempt, queued, incrementedQueue, hist,
                             returned>>
  /\ UNCHANGED <<env, limits, userLimits, requestsCount, queueCount, mutex,
                 uRequestsCount, uMutex, timers, cb, req, userState, arrivals>>

\* part_000:238-244: allocate a state with the global policy, Lock
GecLock2(r) ==
  /\ pc[r] = "gec_lock2"
  /\ CanLock
  /\ limitsLock' = Lock(r)
  /\ state' = [state EXCEPT ![r] = <<req[r].path, req[r].method, r>>]
  /\ pc' = [pc EXCEPT ![r] = "gec_insert"]
  /\ UNCHANGED <<env, limits, userLimits, requestsCount, queueCount, mutex,
                 uRequestsCount, uMutex, timers, cb, req, methodStates, userState, attempt,
                 queued, incrementedQueue, hist, returned, arrivals>>

\* methodStates[method] = state (part_000:245) panics on a nil map.
InsertPanics(ms) == ms = "nil"

\* part_000:245-249: insert, Unlock, return.  The Unlock of 246 is not
\* deferred: a goroutine that panics at 245 keeps limitsLock for ever.
GecInsert(r) ==
  /\ pc[r] = "gec_insert"
  /\ IF InsertPanics(methodStates[r])
       THEN /\ pc' = [pc EXCEPT ![r] = "panicked"]
            /\ hist' = [hist EXCEPT ![r].outcome = "panic"]
            /\ UNCHANGED <<limits, limitsLock, methodStates, state, attempt, queued,
                           incrementedQueue, returned>>
       ELSE /\ limits' = [limits EXCEPT ![methodStates[r]].states[req[r].method] = state[r]]
            /\ limitsLock' = Unlock
            /\ ReturnState(r, state[r])
  /\ UNCHANGED <<env, userLimits, requestsCount, queueCount, mutex,
                 uRequestsCount, uMutex, timers, cb, req, userState, arrivals>>

\* ---------------------------------------------------------------- applyRateLimiting
\* part_000:167
RlLock(r) ==
  /\ pc[r] = "rl_lock"
  /\ mutex[state[r]] = NoOne
  /\ mutex' = [mutex EXCEPT ![state[r]] = r]
  /\ hist' = [hist EXCEPT ![r].attempts = @ + 1]
  /\ pc' = [pc EXCEPT ![r] = "rl_check"]
  /\ UNCHANGED <<env, limits, userLimits, limitsLock, requestsCount, queueCount,
                 uRequestsCount, uMutex, timers, cb, req, locals, returned, arrivals>>

\* The capacity test off by one.
HasCapacityOffByOne(o) == requestsCount[o] <= maxRequests(o)

\* part_000:168
HasCapacity(o) == requestsCount[o] < maxRequests(o)

\* part_000:168-181: admit, give the reservation back, Unlock, call upstream
RlCheck(r) ==
  /\ pc[r] = "rl_check"
  /\ LET o == state[r] IN
       IF HasCapacity(o)
         THEN /\ requestsCount' = [requestsCount EXCEPT ![o] = @ + 1]
              /\ queueCount' = [queueCount EXCEPT ![o] = IF queued[r] THEN @ - 1 ELSE @]
              /\ mutex' = [mutex EXCEPT ![o] = NoOne]
              /\ hist' = [hist EXCEPT ![r].rcInc = @ + 1,
                                      ![r].calls = @ + 1,
                                      ![r].qDec = IF queued[r] THEN @ + 1 ELSE @]
              /\ pc' = [pc EXCEPT ![r] = "upstream"]
         ELSE /\ pc' = [pc EXCEPT ![r] = "rl_reserve"]
              /\ UNCHANGED <<requestsCount, queueCount, mutex, hist>>
  /\ UNCHANGED <<env, limits, userLimits, limitsLock, uRequestsCount, uMutex, timers, cb,
                 req, locals, returned, arrivals>>

\* part_000:186
QueueHasRoom(o) == queueCount[o] < maxQueue(o)

\* part_000:185-196: reserve a queue slot on the first attempt that finds no
\* capacity; with a reservation already made, Unlock and sleep.
RlReserve(r) ==
  /\ pc[r] = "rl_reserve"
  /\ LET o == state[r] IN
       IF ~incrementedQueue[r]
         THEN /\ IF QueueHasRoom(o)
                   THEN /\ queueCount' = [queueCount EXCEPT ![o] = @ + 1]
                        /\ incrementedQueue' = [incrementedQueue EXCEPT ![r] = TRUE]
                        /\ queued' = [queued EXCEPT ![r] = TRUE]
                        /\ hist' = [hist EXCEPT ![r].qInc = @ + 1]
                   ELSE UNCHANGED <<queueCount, incrementedQueue, queued, hist>>
              /\ pc' = [pc EXCEPT ![r] = "rl_full"]
              /\ UNCHANGED mutex
         ELSE /\ mutex' = [mutex EXCEPT ![o] = NoOne]
              /\ pc' = [pc EXCEPT ![r] = "rl_sleep"]
              /\ UNCHANGED <<queueCount, incrementedQueue, queued, hist>>
  /\ UNCHANGED <<env, limits, userLimits, limitsLock, requestsCount, uRequestsCount,
                 uMutex, timers, cb, req, methodStates, state, userState, attempt,
                 returned, arrivals>>

\* The full-queue test reading the wrong ceiling.
QueueFullWrongCeiling(o) == queueCount[o] >= maxRequests(o)

\* The full-queue test rejecting only beyond the ceiling.
QueueFullStrict(o) == queueCount[o] > maxQueue(o)

\* part_000:198
QueueFull(o) == queueCount[o] >= maxQueue(o)

\* The pass that goes to sleep without the Unlock of line 204.
RlFullKeepsLock(r) ==
  /\ pc[r] = "rl_full"
  /\ LET o == state[r] IN
       IF QueueFull(o)
         THEN /\ mutex' = [mutex EXCEPT ![o] = NoOne]
              /\ pc' = [pc EXCEPT ![r] = "done"]
              /\ hist' = [hist EXCEPT ![r].outcome = "rejected_queue"]
              /\ DropLocals(r)
         ELSE /\ pc' = [pc EXCEPT ![r] = "rl_sleep"]
              /\ UNCHANGED <<mutex, hist, attempt, queued, incrementedQueue>>
  /\ UNCHANGED <<env, limits, userLimits, limitsLock, requestsCount, queueCount,
                 uRequestsCount, uMutex, timers, cb, req, methodStates, state, userState,
                 returned, arrivals>>

\* part_000:198-204: a full queue rejects with 429, otherwise Unlock and sleep
RlFull(r) ==
  /\ pc[r] = "rl_full"
  /\ LET o == state[r] IN
       /\ mutex' = [mutex EXCEPT ![o] = NoOne]
       /\ IF QueueFull(o)
            THEN /\ pc' = [pc EXCEPT ![r] = "done"]
                 /\ hist' = [hist EXCEPT ![r].outcome = "rejected_queue"]
                 /\ DropLocals(r)
            ELSE /\ pc' = [pc EXCEPT ![r] = "rl_sleep"]
                 /\ UNCHANGED <<hist, attempt, queued, incrementedQueue>>
  /\ UNCHANGED <<env, limits, userLimits, limitsLock, requestsCount, queueCount,
                 uRequestsCount, uMutex, timers, cb, req, methodStates, state, userState,
                 returned, arrivals>>

\* part_000:193-195 and 206-207, then the loop test of 166 and, with no
\* reservation to release, the 429 of 217
RlSleep(r) ==
  /\ pc[r] = "rl_sleep"
  /\ pc' = [pc EXCEPT ![r] = AfterLoopTest(attempt[r] - 1, queued[r])]
  /\ hist' = [hist EXCEPT ![r] =
        OutcomeAfterLoop(attempt[r] - 1, queued[r], [@ EXCEPT !.sleeps = @ + 1])]
  /\ IF AfterLoopTest(attempt[r] - 1, queued[r]) = "done"
       THEN DropLocals(r)
       ELSE /\ attempt' = [attempt EXCEPT ![r] = @ - 1]
            /\ UNCHANGED <<queued, incrementedQueue>>
  /\ UNCHANGED <<env, shared, req, methodStates, state, userState, returned, arrivals>>

\* part_000:181-182: the upstream handler returns
UpstreamReturn(r) ==
  /\ pc[r] = "upstream"
  /\ pc' = [pc EXCEPT ![r] = "df_lock"]
  /\ UNCHANGED <<env, shared, req, locals, hist, returned, arrivals>>

\* part_000:176, the deferred function
DeferLock(r) ==
  /\ pc[r] = "df_lock"
  /\ mutex[state[r]] = NoOne
  /\ mutex' = [mutex EXCEPT ![state[r]] = r]
  /\ pc' = [pc EXCEPT ![r] = "df_dec"]
  /\ UNCHANGED <<env, limits, userLimits, limitsLock, requestsCount, queueCount,
                 uRequestsCount, uMutex, timers, cb, req, locals, hist, returned, arrivals>>

\* part_000:177-178
DeferDec(r) ==
  /\ pc[r] = "df_dec"
  /\ requestsCount' = [requestsCount EXCEPT ![state[r]] = @ - 1]
  /\ mutex' = [mutex EXCEPT ![state[r]] = NoOne]
  /\ pc' = [pc EXCEPT ![r] = "done"]
  /\ hist' = [hist EXCEPT ![r].outcome = "forwarded"]
  /\ DropLocals(r)
  /\ UNCHANGED <<env, limits, userLimits, limitsLock, queueCount,
                 uRequestsCount, uMutex, timers, cb, req, methodStates, state, userState,
                 returned, arrivals>>

\* part_000:210-211
ExhaustLock(r) ==
  /\ pc[r] = "ex_lock"
  /\ mutex[state[r]] = NoOne
  /\ mutex' = [mutex EXCEPT ![state[r]] = r]
  /\ pc' = [pc EXCEPT ![r] = "ex_dec"]
  /\ UNCHANGED <<env, limits, userLimits, limitsLock, requestsCount, queueCount,
                 uRequestsCount, uMutex, timers, cb, req, locals, hist, returned, arrivals>>

\* part_000:212-217
ExhaustDec(r) ==
  /\ pc[r] = "ex_dec"
  /\ queueCount' = [queueCount EXCEPT ![state[r]] = @ - 1]
  /\ mutex' = [mutex EXCEPT ![state[r]] = NoOne]
  /\ pc' = [pc EXCEPT ![r] = "done"]
  /\ hist' = [hist EXCEPT ![r].qDec = @ + 1, ![r].outcome = "rejected_exhausted"]
  /\ DropLocals(r)
  /\ UNCHANGED <<env, limits, userLimits, limitsLock, requestsCount,
                 uRequestsCount, uMutex, timers, cb, req, methodStates, state, userState,
                 returned, arrivals>>

\* ---------------------------------------------------------------- applyUserLimits
UserOf(r) == req[r].userID

\* part_000:100
AulRLock1(r) ==
  /\ pc[r] = "aul_rlock1"
  /\ CanRLock
  /\ limitsLock' = RLock(r)
  /\ pc' = [pc EXCEPT ![r] = "aul_read1"]
  /\ UNCHANGED <<env, limits, userLimits, requestsCount, queueCount, mutex,
                 uRequestsCount, uMutex, timers, cb, req, locals, hist, returned, arrivals>>

\* part_000:101-102: with the user map present the read lock is kept for 111
AulRead1(r) ==
  /\ pc[r] = "aul_read1"
  /\ IF userLimits[Key(r)].present
       THEN /\ pc' = [pc EXCEPT ![r] = "aul_read2"]
            /\ UNCHANGED limitsLock
       ELSE /\ pc' = [pc EXCEPT ![r] = "aul_lock1"]
            /\ limitsLock' = RUnlock(r)
  /\ UNCHANGED <<env, limits, userLimits, requestsCount, queueCount, mutex,
                 uRequestsCount, uMutex, timers, cb, req, locals, hist, returned, arrivals>>

\* part_000:103
AulLock1(r) ==
  /\ pc[r] = "aul_lock1"
  /\ CanLock
  /\ limitsLock' = Lock(r)
  /\ pc' = [pc EXCEPT ![r] = "aul_create1"]
  /\ UNCHANGED <<env, limits, userLimits, requestsCount, queueCount, mutex,
                 uRequestsCount, uMutex, timers, cb, req, locals, hist, returned, arrivals>>

\* part_000:104-107: re-check, make the user map, Unlock
AulCreate1(r) ==
  /\ pc[r] = "aul_create1"
  /\ userLimits' = [userLimits EXCEPT ![Key(r)].present = TRUE]
  /\ limitsLock' = Unlock
  /\ pc' = [pc EXCEPT ![r] = "aul_rlock2"]
  /\ UNCHANGED <<env, limits, requestsCount, queueCount, mutex,
                 uRequestsCount, uMutex, timers, cb, req, locals, hist, returned, arrivals>>

\* part_000:108
AulRLock2(r) ==
  /\ pc[r] = "aul_rlock2"
  /\ CanRLock
  /\ limitsLock' = RLock(r)
  /\ pc' = [pc EXCEPT ![r] = "aul_read2"]
  /\ UNCHANGED <<env, limits, userLimits, requestsCount, queueCount, mutex,
                 uRequestsCount, uMutex, timers, cb, req, locals, hist, returned, arrivals>>

\* part_000:111-113: userState, exists := t.userLimits[key][userID]; RUnlock
AulRead2(r) ==
  /\ pc[r] = "aul_read2"
  /\ LET o == userLimits[Key(r)].users[UserOf(r)] IN
       /\ userState' = [userState EXCEPT ![r] = o]
       /\ pc' = [pc EXCEPT ![r] = IF o # NilU THEN "aul_mlock" ELSE "aul_lock2"]
  /\ limitsLock' = RUnlock(r)
  /\ UNCHANGED <<env, limits, userLimits, requestsCount, queueCount, mutex,
                 uRequestsCount, uMutex, timers, cb, req, methodStates, state, attempt,
                 queued, incrementedQueue, hist, returned, arrivals>>

\* part_000:114-132: allocate a UserState, Lock
AulLock2(r) ==
  /\ pc[r] = "aul_lock2"
  /\ CanLock
  /\ limitsLock' = Lock(r)
  /\ userState' = [userState EXCEPT ![r] = <<req[r].path, req[r].method, UserOf(r), r>>]
  /\ pc' = [pc EXCEPT ![r] = "aul_insert"]
  /\ UNCHANGED <<env, limits, userLimits, requestsCount, queueCount, mutex,
                 uRequestsCount, uMutex, timers, cb, req, methodStates, state, attempt,
                 queued, incrementedQueue, hist, returned, arrivals>>

\* part_000:133-134
AulInsert(r) ==
  /\ pc[r] = "aul_insert"
  /\ userLimits' = [userLimits EXCEPT ![Key(r)].users[UserOf(r)] = userState[r]]
  /\ limitsLock' = Unlock
  /\ pc' = [pc EXCEPT ![r] = "aul_mlock"]
  /\ UNCHANGED <<env, limits, requestsCount, queueCount, mutex,
                 uRequestsCount, uMutex, timers, cb, req, locals, hist, returned, arrivals>>

\* part_000:138
AulMLock(r) ==
  /\ pc[r] = "aul_mlock"
  /\ uMutex[userState[r]] = NoOne
  /\ uMutex' = [uMutex EXCEPT ![userState[r]] = r]
  /\ pc' = [pc EXCEPT ![r] = "aul_body"]
  /\ UNCHANGED <<env, limits, userLimits, limitsLock, requestsCount, queueCount, mutex,
                 uRequestsCount, timers, cb, req, locals, hist, returned, arrivals>>

\* The limit test letting one admission too many through.
UserAtLimitStrict(o) == uRequestsCount[o] > userMaxRequests(o)

\* part_000:141
UserAtLimit(o) == uRequestsCount[o] >= userMaxRequests(o)

\* part_000:141-157 with the deferred Unlock of 139: reject with 429, or count
\* the admission, schedule its release and go on to the endpoint tier (92).
\* The local userState ends with the call; the callback has its own reference.
AulBody(r) ==
  /\ pc[r] = "aul_body"
  /\ LET o == userState[r] IN
       /\ uMutex' = [uMutex EXCEPT ![o] = NoOne]
       /\ userState' = [userState EXCEPT ![r] = NilU]
       /\ IF UserAtLimit(o)
            THEN /\ pc' = [pc EXCEPT ![r] = "done"]
                 /\ hist' = [hist EXCEPT ![r].outcome = "rejected_user",
                                         ![r].userTier = "rejected"]
                 /\ UNCHANGED <<uRequestsCount, timers>>
            ELSE /\ uRequestsCount' = [uRequestsCount EXCEPT ![o] = @ + 1]
                 /\ timers' = [timers EXCEPT ![o] = @ + 1]
                 /\ pc' = [pc EXCEPT ![r] = "gec_rlock1"]
                 /\ hist' = [hist EXCEPT ![r].userTier = "admitted"]
  /\ UNCHANGED <<env, limits, userLimits, limitsLock, requestsCount, queueCount, mutex,
                 cb, req, methodStates, state, attempt, queued, incrementedQueue,
                 returned, arrivals>>

\* ---------------------------------------------------------------- the release callback
\* part_000:148-150: the delay has passed and the callback has limitsLock
TimerLock(o) ==
  /\ timers[o] > 0
  /\ CanLock
  /\ timers' = [timers EXCEPT ![o] = @ - 1]
  /\ limitsLock' = Lock(TimerCb)
  /\ cb' = [pc |-> "cb_mlock", obj |-> o]
  /\ UNCHANGED <<env, limits, userLimits, requestsCount, queueCount, mutex,
                 uRequestsCount, uMutex, pc, req, locals, hist, returned, arrivals>>

\* part_000:152
TimerMLock ==
  /\ cb.pc = "cb_mlock"
  /\ uMutex[cb.obj] = NoOne
  /\ uMutex' = [uMutex EXCEPT ![cb.obj] = TimerCb]
  /\ cb' = [cb EXCEPT !.pc = "cb_dec"]
  /\ UNCHANGED <<env, limits, userLimits, limitsLock, requestsCount, queueCount, mutex,
                 uRequestsCount, timers, pc, req, locals, hist, returned, arrivals>>

\* The callback giving its locks back without the decrement.
TimerReleaseOnly ==
  /\ cb.pc = "cb_dec"
  /\ uMutex' = [uMutex EXCEPT ![cb.obj] = NoOne]
  /\ limitsLock' = Unlock
  /\ cb' = [pc |-> "off", obj |-> NilU]
  /\ UNCHANGED <<env, limits, userLimits, requestsCount, queueCount, mutex,
                 uRequestsCount, timers, pc, req, locals, hist, returned, arrivals>>

\* part_000:153-154 and the deferred Unlock of 150
TimerDec ==
  /\ cb.pc = "cb_dec"
  /\ uRequestsCount' = [uRequestsCount EXCEPT ![cb.obj] = @ - 1]
  /\ uMutex' = [uMutex EXCEPT ![cb.obj] = NoOne]
  /\ limitsLock' = Unlock
  /\ cb' = [pc |-> "off", obj |-> NilU]
  /\ UNCHANGED <<env, limits, userLimits, requestsCount, queueCount, mutex,
                 timers, pc, req, locals, hist, returned, arrivals>>

\* ---------------------------------------------------------------- specification
Next ==
  \/ \E r \in Threads :
       \/ ServeHTTP(r)
       \/ GecRLock1(r) \/ GecRead1(r) \/ GecLock1(r) \/ GecCreate1(r)
       \/ GecRLock2(r) \/ GecRead2(r) \/ GecLock2(r) \/ GecInsert(r)
       \/ RlLock(r) \/ RlCheck(r) \/ RlReserve(r) \/ RlFull(r) \/ RlSleep(r)
       \/ UpstreamReturn(r) \/ DeferLock(r) \/ DeferDec(r)
       \/ ExhaustLock(r) \/ ExhaustDec(r)
       \/ AulRLock1(r) \/ AulRead1(r) \/ AulLock1(r) \/ AulCreate1(r)
       \/ AulRLock2(r) \/ AulRead2(r) \/ AulLock2(r) \/ AulInsert(r)
       \/ AulMLock(r) \/ AulBody(r)
  \/ \E o \in UObjs : TimerLock(o)
  \/ TimerMLock
  \/ TimerDec

Spec == Init /\ [][Next]_vars

\* Fairness for the endpoint tier: a goroutine that can take a step of
\* applyRateLimiting takes it (the sleep ends, the upstream handler returns),
\* and sync.Mutex hands the lock to every waiter in the end (starvation mode).
RlStep(r) ==
  \/ RlLock(r) \/ RlCheck(r) \/ RlReserve(r) \/ RlFull(r) \/ RlSleep(r)
  \/ UpstreamReturn(r) \/ DeferLock(r) \/ DeferDec(r)
  \/ ExhaustLock(r) \/ ExhaustDec(r)

RlFairness == \A r \in Threads : WF_vars(RlStep(r))

\* The endpoint tier on its own: no request carries a user identifier, so
\* ServeHTTP goes straight to getEndpointConfig and applyRateLimiting
\* (part_000:80-85) and no release callback is ever scheduled.
InitAnon ==
  /\ Init
  /\ \A q \in workload : q.userID = NoUser
  /\ Cardinality(workload) = 1

NextAnon ==
  \E r \in Threads :
    \/ ServeHTTP(r)
    \/ GecRLock1(r) \/ GecRead1(r) \/ GecLock1(r) \/ GecCreate1(r)
    \/ GecRLock2(r) \/ GecRead2(r) \/ GecLock2(r) \/ GecInsert(r)
    \/ RlLock(r) \/ RlCheck(r) \/ RlReserve(r) \/ RlFull(r) \/ RlSleep(r)
    \/ UpstreamReturn(r) \/ DeferLock(r) \/ DeferDec(r)
    \/ ExhaustLock(r) \/ ExhaustDec(r)

LiveSpec == InitAnon /\ [][NextAnon]_vars /\ RlFairness

\* Construction on its own: the configuration carries any of the duration
\* strings, and the one step is the call of New (part_000:13-74).
DelayInputs ==
  [global : [RetryDelay : DurationStrings, UserRetryDelay : DurationStrings],
   override : [RetryDelay : DurationStrings, UserRetryDelay : DurationStrings]]

InitNew ==
  /\ \E sc \in Scenarios : Constructed(sc)
  /\ delays \in DelayInputs
  /\ throttle = NotCalled

CallNew ==
  /\ throttle.status = "none"
  /\ throttle' = New(delays)
  /\ UNCHANGED <<shared, globalConfig, endpointConfigs, workload, delays,
                 pc, req, locals, hist, returned, arrivals>>

NextNew == CallNew

SpecNew == InitNew /\ [][NextNew]_vars

\* The sequential case of the user tier: one user sends a request only when
\* the one before has returned from ServeHTTP, on an endpoint with capacity
\* for it; release callbacks run whenever their delay has passed.
SeqScenarios ==
  { \* the configured endpoint, userMaxRequests = 2 taken from the global policy
    Scenario(Cfg(2, 0, 0, 2), Cfg(1, 0, 0, 0), {Request("/a", "GET", "u1")}),
    \* an endpoint never seen before, userMaxRequests = 1
    Scenario(Cfg(2, 0, 0, 1), Cfg(1, 0, 0, 0), {Request("/b", "GET", "u1")}) }

InitSeq ==
  /\ \E sc \in SeqScenarios : Constructed(sc)
  /\ delays = DefaultDelays
  /\ throttle = New(delays)

ServeHTTPSeq(r) ==
  /\ \A s \in Threads : pc[s] \in {"idle", "done"}
  /\ ServeHTTP(r)

NextSeq ==
  \/ \E r \in Threads :
       \/ ServeHTTPSeq(r)
       \/ AulRLock1(r) \/ AulRead1(r) \/ AulLock1(r) \/ AulCreate1(r)
       \/ AulRLock2(r) \/ AulRead2(r) \/ AulLock2(r) \/ AulInsert(r)
       \/ AulMLock(r) \/ AulBody(r)
       \/ GecRLock1(r) \/ GecRead1(r) \/ GecLock1(r) \/ GecCreate1(r)
       \/ GecRLock2(r) \/ GecRead2(r) \/ GecLock2(r) \/ GecInsert(r)
       \/ RlLock(r) \/ RlCheck(r)
       \/ UpstreamReturn(r) \/ DeferLock(r) \/ DeferDec(r)
  \/ \E o \in UObjs : TimerLock(o)
  \/ TimerMLock
  \/ TimerDec

SeqSpec == InitSeq /\ [][NextSeq]_vars

\* ---------------------------------------------------------------- observations
\* The maxRequests in force for a key: the override's, else the global one.
EffectiveMaxRequests(k) ==
  IF k \in ConfiguredKeys THEN endpointConfigs[k].MaxRequests ELSE globalConfig.MaxRequests

EffectiveUserMaxRequests(k) ==
  IF k \in ConfiguredKeys /\ endpointConfigs[k].UserMaxRequests > 0
    THEN endpointConfigs[k].UserMaxRequests
    ELSE globalConfig.UserMaxRequests

InUpstream(k) == {r \in Threads : pc[r] = "upstream" /\ Key(r) = k}

RlPcs == {"rl_lock", "rl_check", "rl_reserve", "rl_full", "rl_sleep",
          "upstream", "df_lock", "df_dec", "ex_lock", "ex_dec"}
WaitPcs == {"rl_lock", "rl_check", "rl_reserve", "rl_full", "rl_sleep", "ex_lock", "ex_dec"}
AdmittedPcs == {"upstream", "df_lock", "df_dec"}
Rejections == {"rejected_queue", "rejected_exhausted"}

\* User-tier admissions of (k, u) whose release has not decremented yet.
PendingReleases(o) == timers[o] + (IF cb.pc # "off" /\ cb.obj = o THEN 1 ELSE 0)
RECURSIVE SumOver(_, _)
SumOver(f, S) ==
  IF S = {} THEN 0 ELSE LET x == CHOOSE y \in S : TRUE IN f[x] + SumOver(f, S \ {x})
Outstanding(k, u) ==
  SumOver([o \in UObjs |-> PendingReleases(o)],
          {o \in UObjs : UKey(o) = k /\ o[3] = u})

\* ---------------------------------------------------------------- claims

\* C1: for every (path, method) key, at most maxRequests requests of that key
\* are inside the upstream handler at the same time.
AtMostMaxRequestsForwarded ==
  \A k \in Keys : Cardinality(InUpstream(k)) <= EffectiveMaxRequests(k)

\* C2: get-or-create is race-free: all callers of getEndpointConfig for one
\* key receive the same endpointState, and the registry never holds another
\* object for a key than the one it has returned.
GetOrCreateRaceFree ==
  \A k \in Keys :
    /\ Cardinality(returned[k]) <= 1
    /\ \A o \in returned[k] : limits[k[1]].states[k[2]] = o

\* C3: no request panics: getEndpointConfig never inserts into a nil method map.
NeverPanics ==
  \A r \in Threads : pc[r] # "panicked"

\* C4: for every (endpoint-key, user) pair, the user-tier admissions whose
\* timed release has not fired yet number at most userMaxRequests.
UserAdmissionsBounded ==
  \A k \in Keys : \A u \in Users : Outstanding(k, u) <= EffectiveUserMaxRequests(k)

\* C5: a request that reserved a queue slot and has returned after using all
\* retryCount+1 attempts without being admitted was rejected with 429, gave
\* its reservation back exactly once and never touched requestsCount.
ExhaustedReleasesReservation ==
  \A r \in Threads :
    (/\ pc[r] = "done"
     /\ hist[r].qInc > 0
     /\ hist[r].outcome # "forwarded"
     /\ hist[r].attempts = retryCount(state[r]) + 1)
    => (/\ hist[r].outcome \in Rejections
        /\ hist[r].qInc = 1
        /\ hist[r].qDec = 1
        /\ hist[r].rcInc = 0)

\* C6: queueCount of a state is the number of requests in progress on it that
\* hold a queue reservation, requestsCount the number of requests admitted
\* and not yet returned from upstream.
CountersMatchRequests ==
  \A o \in EObjs :
    /\ queueCount[o] =
         Cardinality({r \in Threads : state[r] = o /\ pc[r] \in WaitPcs /\ queued[r]})
    /\ requestsCount[o] =
         Cardinality({r \in Threads : state[r] = o /\ pc[r] \in AdmittedPcs})

\* C7: for every endpointState, 0 <= requestsCount <= maxRequests and
\* 0 <= queueCount <= maxQueue in every reachable state.
CountersWithinCeilings ==
  \A o \in EObjs :
    /\ 0 <= requestsCount[o] /\ requestsCount[o] <= maxRequests(o)
    /\ 0 <= queueCount[o] /\ queueCount[o] <= maxQueue(o)

C7Witness ==
  \E o \in EObjs :
    /\ maxRequests(o) > 0 /\ requestsCount[o] = maxRequests(o)
    /\ maxQueue(o) > 0 /\ queueCount[o] = maxQueue(o)
    /\ \E r \in Threads : state[r] = o /\ pc[r] = "rl_reserve"

\* C8: a request that found no capacity and, after the reservation step of
\* the attempt, sees queueCount >= maxQueue is rejected with 429 in that
\* attempt: its next step ends the request, with no sleep and no new attempt.
FullQueueRejectsAtOnce ==
  [][\A r \in Threads :
       (/\ pc[r] = "rl_full"
        /\ queueCount[state[r]] >= maxQueue(state[r])
        /\ pc'[r] # pc[r])
       => (/\ pc'[r] = "done"
           /\ hist'[r].outcome = "rejected_queue"
           /\ hist'[r].sleeps = hist[r].sleeps
           /\ hist'[r].attempts = hist[r].attempts)]_vars

C8Witness ==
  \E r \in Threads :
    /\ pc[r] = "done" /\ hist[r].outcome = "rejected_queue"
    /\ hist[r].qInc = 1 /\ hist[r].sleeps = 0
    /\ queueCount[state[r]] = maxQueue(state[r])

\* C9: scenario A (maxRequests=1, maxQueue=1, retryCount=1), two requests at
\* one unconfigured endpoint: never both in upstream, neither panics, and a
\* request is rejected only after its retryCount+1 attempts, with the other
\* one still in the upstream handler.
ScenarioAOutcome ==
  (/\ globalConfig = ScenarioA
   /\ arrivals <= 2
   /\ \A r \in Threads : pc[r] # "idle" => Key(r) \notin ConfiguredKeys /\ UserOf(r) = NoUser)
  => /\ \A k \in Keys : Cardinality(InUpstream(k)) <= 1
     /\ \A r \in Threads : pc[r] # "panicked"
     /\ \A r \in Threads :
          (pc[r] = "done" /\ hist[r].outcome \in Rejections)
          => /\ hist[r].attempts = globalConfig.RetryCount + 1
             /\ \E s \in Threads : s # r /\ pc[s] = "upstream"

\* C10: a request in applyRateLimiting makes at most retryCount+1 attempts,
\* ends with exactly one outcome (forwarded, or rejected with 429), and with
\* an upstream handler that returns and fair locks it does end.
RateLimitingTerminates ==
  /\ [](\A r \in Threads :
          /\ pc[r] \in RlPcs => hist[r].attempts <= retryCount(state[r]) + 1
          /\ (pc[r] = "done" /\ hist[r].attempts > 0)
             => /\ hist[r].outcome \in Rejections \cup {"forwarded"}
                /\ hist[r].outcome = "forwarded" <=> hist[r].rcInc = 1)
  /\ \A r \in Threads : (pc[r] \in RlPcs) ~> (pc[r] = "done")

C10Witness ==
  \E r \in Threads :
    /\ pc[r] = "done" /\ hist[r].outcome = "rejected_exhausted"
    /\ hist[r].attempts = retryCount(state[r]) + 1 /\ hist[r].sleeps > 0
    /\ \E s \in Threads : s # r /\ pc[s] = "done" /\ hist[s].outcome = "forwarded"

\* ---------------------------------------------------------------- C15
\* The value a field takes under per-field inheritance: the override's when
\* it is set, the global one when it is left at the zero / empty sentinel.
Inherited(overrideValue, globalValue) ==
  IF overrideValue = 0 THEN globalValue ELSE overrideValue

InheritedDuration(overrideString, defaultDuration, globalDuration) ==
  IF overrideString = "" THEN globalDuration
  ELSE OverrideDuration(overrideString, defaultDuration)

\* C15: for a key with an override, every field of the EndpointState and the
\* UserState built for it (maxRequests, maxQueue, retryCount, retryDelay,
\* userMaxRequests, userRetryDelay) has the override's value when the override
\* sets it and the global value when the override leaves it at its sentinel.
OverrideInheritsPerField ==
  throttle.status = "ok" =>
    \A k \in ConfiguredKeys :
      LET o == <<k[1], k[2], ByNew>>
          c == endpointConfigs[k]
      IN /\ maxRequests(o) = Inherited(c.MaxRequests, globalConfig.MaxRequests)
         /\ maxQueue(o) = Inherited(c.MaxQueue, globalConfig.MaxQueue)
         /\ retryCount(o) = Inherited(c.RetryCount, globalConfig.RetryCount)
         /\ throttle.endpointRetryDelay =
              InheritedDuration(delays.override.RetryDelay, Millisecond,
                                throttle.retryDelayDuration)
         /\ \A u \in UObjs : UKey(u) = k =>
              /\ userMaxRequests(u) =
                   Inherited(c.UserMaxRequests, globalConfig.UserMaxRequests)
              /\ throttle.endpointUserRetryDelay =
                   InheritedDuration(delays.override.UserRetryDelay, Second,
                                     throttle.userRetryDelayDuration)

\* ---------------------------------------------------------------- C16
\* C16: New returns no error whatever the duration strings are: a string
\* that does not parse, global or of an override, is replaced by the default
\* (1 ms for retryDelay, 1 s for userRetryDelay) in the handler returned.
NewNeverFailsOnDuration ==
  throttle.status # "none" =>
    /\ throttle.status = "ok"
    /\ ParseDuration(delays.global.RetryDelay).err /\ delays.global.RetryDelay # ""
         => throttle.retryDelayDuration = Millisecond
    /\ ParseDuration(delays.global.UserRetryDelay).err /\ delays.global.UserRetryDelay # ""
         => throttle.userRetryDelayDuration = Second
    /\ ParseDuration(delays.override.RetryDelay).err /\ delays.override.RetryDelay # ""
         => throttle.endpointRetryDelay = Millisecond
    /\ ParseDuration(delays.override.UserRetryDelay).err /\ delays.override.UserRetryDelay # ""
         => throttle.endpointUserRetryDelay = Second

\* ---------------------------------------------------------------- C11
\* C11: a request in applyRateLimiting sleeps for retryDelay at most
\* retryCount times in all before it is admitted or rejected.
SleepsAtMostRetryCount ==
  \A r \in Threads :
    state[r] # NilE => hist[r].sleeps <= retryCount(state[r])

UserReleaseAccounting ==
  /\ [](\A o \in UObjs :
          /\ uRequestsCount[o] >= 0
          /\ uRequestsCount[o] =
               timers[o] + (IF cb.pc # "off" /\ cb.obj = o THEN 1 ELSE 0))
  /\ [][\A o \in UObjs :
          /\ uRequestsCount'[o] > uRequestsCount[o] =>
               /\ uRequestsCount'[o] = uRequestsCount[o] + 1
               /\ timers'[o] = timers[o] + 1
               /\ \E r \in Threads :
                    pc[r] = "aul_body" /\ userState[r] = o /\ pc'[r] = "gec_rlock1"
          /\ timers'[o] > timers[o] => uRequestsCount'[o] = uRequestsCount[o] + 1
          /\ uRequestsCount'[o] < uRequestsCount[o] =>
               /\ uRequestsCount'[o] = uRequestsCount[o] - 1
               /\ cb.pc = "cb_dec" /\ cb.obj = o /\ cb'.pc = "off"
          /\ \A r \in Threads :
               pc[r] = "aul_body" /\ userState[r] = o /\ pc'[r] = "done" =>
                 uRequestsCount' = uRequestsCount /\ timers' = timers]_vars

\* The release of an admission has fired while its request is still in the
\* upstream handler: the count is back at 0.
C13Witness ==
  \E r \in Threads :
    /\ pc[r] = "upstream"
    /\ req[r].userID # NoUser
    /\ cb.pc = "off"
    /\ \A o \in UObjs : uRequestsCount[o] = 0 /\ timers[o] = 0

\* ---------------------------------------------------------------- C14
\* C14: the upstream handler is called exactly once for a request that has
\* passed every tier that applies to it and never for a request rejected
\* with 429 by either tier; the user tier is skipped for a request without a
\* user identifier, and for one with an identifier the endpoint tier is
\* evaluated only after the user tier has admitted it.
UpstreamOncePerAdmitted ==
  \A r \in Threads :
    pc[r] # "idle" =>
      /\ hist[r].calls <= 1
      /\ (/\ hist[r].rcInc = 1
          /\ req[r].userID # NoUser => hist[r].userTier = "admitted")
           => hist[r].calls = 1
      /\ pc[r] \in {"upstream", "df_lock", "df_dec"} \/ hist[r].outcome = "forwarded"
           => hist[r].calls = 1
      /\ hist[r].outcome \in {"rejected_user", "rejected_queue", "rejected_exhausted"}
           => hist[r].calls = 0
      /\ req[r].userID = NoUser => hist[r].userTier = "none"
      /\ (/\ req[r].userID # NoUser
          /\ \/ pc[r] \notin {"done", "aul_rlock1", "aul_read1", "aul_lock1",
                              "aul_create1", "aul_rlock2", "aul_read2", "aul_lock2",
                              "aul_insert", "aul_mlock", "aul_body"}
             \/ state[r] # NilE
             \/ hist[r].attempts > 0)
           => hist[r].userTier = "admitted"

\* A request with a user identifier is in the upstream handler while another
\* of the same user has been rejected by the user tier.
C14Witness ==
  \E r, s \in Threads :
    /\ pc[r] = "upstream" /\ req[r].userID # NoUser /\ hist[r].calls = 1
    /\ pc[s] = "done" /\ hist[s].outcome = "rejected_user" /\ hist[s].calls = 0

\* ---------------------------------------------------------------- C17
\* C17: a goroutine serving a request holds no lock, neither limitsLock nor
\* the mutex of any endpointState or UserState, while it sleeps between two
\* attempts or while the upstream handler runs; and no such goroutine ever
\* holds the mutex of an endpointState and that of a UserState together.
NoLockWhileWaiting ==
  \A r \in Threads :
    /\ pc[r] \in {"rl_sleep", "upstream"} =>
         /\ limitsLock.writer # r
         /\ r \notin limitsLock.readers
         /\ \A o \in EObjs : mutex[o] # r
         /\ \A u \in UObjs : uMutex[u] # r
    /\ ~(\E o \in EObjs, u \in UObjs : mutex[o] = r /\ uMutex[u] = r)

\* One request sleeps between two attempts while another is in the upstream
\* handler, and every lock is free.
C17Witness ==
  /\ \E r, s \in Threads : pc[r] = "rl_sleep" /\ pc[s] = "upstream"
  /\ limitsLock = [writer |-> NoOne, readers |-> {}]
  /\ \A o \in EObjs : mutex[o] = NoOne

\* ---------------------------------------------------------------- C18
\* C18: limitsLock is held only around lookups and insertions in the registry
\* maps: whoever holds it, a request's goroutine or a release callback, is not
\* at a step that acquires the mutex of a state or changes a requestsCount
\* or queueCount.
RegistryLockGuardsMapsOnly ==
  /\ \A r \in Threads :
       limitsLock.writer = r \/ r \in limitsLock.readers =>
         pc[r] \notin {"rl_lock", "rl_check", "rl_reserve", "rl_full", "df_lock",
                       "df_dec", "ex_lock", "ex_dec", "aul_mlock", "aul_body"}
  /\ limitsLock.writer = TimerCb => cb.pc \notin {"cb_mlock", "cb_dec"}

SleepsOnlyWhileQueued ==
  \A r \in Threads :
    /\ pc[r] = "rl_sleep" =>
         queued[r] /\ hist[r].qInc = 1 /\ hist[r].qDec = 0
    /\ hist[r].sleeps > 0 \/ hist[r].attempts > 1 => hist[r].qInc = 1
    /\ state[r] # NilE /\ maxQueue(state[r]) = 0 =>
         hist[r].sleeps = 0 /\ hist[r].attempts <= 1

\* With maxQueue = 0 and retryCount = 3 a request found the endpoint at its
\* ceiling and was rejected on its first attempt.
C20Witness ==
  \E r \in Threads :
    /\ pc[r] = "done"
    /\ hist[r].outcome = "rejected_queue"
    /\ hist[r].attempts = 1 /\ hist[r].sleeps = 0 /\ hist[r].qInc = 0
    /\ state[r] # NilE
    /\ maxQueue(state[r]) = 0 /\ retryCount(state[r]) = 3

====
